---- MODULE Spec2Model ----
(***************************************************************************)
(* Navigation / transition core of the virtual home tour (src/src/tour.js) *)
(* as a state machine: the scene registry, the application state object,   *)
(* navigateToScene with its timed suspension, and the load / error         *)
(* callbacks registered on each Pannellum viewer instance.                 *)
(***************************************************************************)
EXTENDS Integers, Sequences, FiniteSets, TLC

\* Bound on the number of viewer instances constructed in one run.
MaxViewers == 3

\* Bound on the magnitude of the initialView.pitch values drawn in ConfigSpec.
MaxPitchInput == 90

\* Bound on the navigations accepted in ViewSpec, where zoom, resize and
\* fullscreen events interleave with them.
MaxViewSwaps == 1

\* Bound on the signals one viewer emits beyond its first, in MultiSpec.
MaxRepeats == 1

\* Bound on the hotspots followed in one walk of WalkSpec.
MaxHops == 6

(***************************************************************************)
(* CONFIGURATION                                                           *)
(***************************************************************************)

\* Object.keys(SCENE_CONFIG): the registry's keys in declaration order.
SceneIds == <<"living-room", "open-living-kitchen", "lounge", "music-room">>

RegistryIds == {SceneIds[i] : i \in DOMAIN SceneIds}

\* The scene registry.  Cosmetic strings (description, accentColor) are left out.
SCENE_CONFIG ==
    [s \in RegistryIds |->
        CASE s = "living-room" ->
                [id |-> "living-room", title |-> "Living Room",
                 image |-> "/panos/living-room.jpg",
                 initialView |-> [yaw |-> 0, pitch |-> 0, hfov |-> 110],
                 hotspots |-> << [targetScene |-> "open-living-kitchen", yaw |-> -90,
                                  pitch |-> -5, label |-> "Open Living & Kitchen"],
                                 [targetScene |-> "lounge", yaw |-> 110,
                                  pitch |-> 0, label |-> "Lounge"] >>]
          [] s = "open-living-kitchen" ->
                [id |-> "open-living-kitchen", title |-> "Open Living & Kitchen",
                 image |-> "/panos/open-living-kitchen.jpg",
                 initialView |-> [yaw |-> 45, pitch |-> 0, hfov |-> 110],
                 hotspots |-> << [targetScene |-> "living-room", yaw |-> -120,
                                  pitch |-> 0, label |-> "Living Room"] >>]
          [] s = "lounge" ->
                [id |-> "lounge", title |-> "Lounge",
                 image |-> "/panos/lounge.jpg",
                 initialView |-> [yaw |-> 0, pitch |-> -5, hfov |-> 105],
                 hotspots |-> << [targetScene |-> "living-room", yaw |-> 160,
                                  pitch |-> 0, label |-> "Living Room"],
                                 [targetScene |-> "music-room", yaw |-> -60,
                                  pitch |-> 0, label |-> "Music Room"] >>]
          [] s = "music-room" ->
                [id |-> "music-room", title |-> "Music Room",
                 image |-> "/panos/music-room.jpg",
                 initialView |-> [yaw |-> -30, pitch |-> 5, hfov |-> 100],
                 hotspots |-> << [targetScene |-> "lounge", yaw |-> 140,
                                  pitch |-> 0, label |-> "Lounge"] >>]]

\* SCENE_CONFIG is an object literal, so SCENE_CONFIG[key] also finds the
\* properties inherited from Object.prototype; one representative is kept.
ObjectPrototypeKeys == {"constructor"}

\* The largest number of hotspots a scene declares.
MaxHotspots ==
    CHOOSE n \in 0..8 :
        /\ \A s \in RegistryIds : Len(SCENE_CONFIG[s].hotspots) <= n
        /\ \E s \in RegistryIds : Len(SCENE_CONFIG[s].hotspots) = n

\* Global viewer settings.  The two fractional settings (friction,
\* touchPanSpeedCoeffFactor) are left out: nothing reads them.
VIEWER_SETTINGS ==
    [minPitch |-> -50, maxPitch |-> 50,
     minHfov |-> 50, maxHfov |-> 120,
     autoLoad |-> TRUE, compass |-> FALSE, showControls |-> FALSE,
     mouseZoom |-> TRUE, keyboardZoom |-> TRUE,
     hfov |-> 110,
     autoRotate |-> 0, autoRotateInactivityDelay |-> 5000]

DEFAULT_SCENE == "living-room"

\* The value of a field that holds null / was never written.
Null == "null"

(***************************************************************************)
(* APPLICATION STATE                                                       *)
(***************************************************************************)

VARIABLES
    currentScene,      \* state.currentScene
    viewer,            \* state.viewer: index into viewers, 0 = null
    isTransitioning,   \* state.isTransitioning
    viewers,           \* every viewer instance constructed so far
    transitionActive,  \* elements.sceneTransition has class 'active' (fade)
    loadingHidden,     \* elements.loadingScreen has class 'hidden'
    ui,                \* what updateUI / updateRoomButtonStates last wrote
    pending,           \* navigateToScene calls suspended in delay(), FIFO
    rejected,          \* some navigateToScene promise was rejected
    updateUICalls,     \* number of updateUI() invocations
    hfov,              \* state.viewer.getHfov(); 0 while there is no viewer
    fullscreen,        \* document.fullscreenElement is set
    chromeHidden,      \* header and room navigation have display 'none'
    accepted,          \* history: ids that passed both guards, in order
    dropped,           \* history: a call hit guard 2 since the last accepted one
    lastOp,            \* history: the operation that ran last, and its outcome
    descriptor,        \* ConfigSpec only: the scene descriptor drawn as input
    built,             \* ConfigSpec only: the configuration built from it
    walk               \* WalkSpec only: the scenes visited by following hotspots

\* The fields of the program (the state object, the DOM, the viewer instances,
\* the suspended calls), without the history variables.
progVars == <<currentScene, viewer, isTransitioning, viewers, transitionActive,
              loadingHidden, ui, pending, rejected, updateUICalls, hfov,
              fullscreen, chromeHidden>>

viewVars == <<hfov, fullscreen, chromeHidden>>

cfgVars == <<descriptor, built, walk>>

vars == <<currentScene, viewer, isTransitioning, viewers, transitionActive,
          loadingHidden, ui, pending, rejected, updateUICalls, hfov,
          fullscreen, chromeHidden, accepted, dropped, lastOp, descriptor, built,
          walk>>

\* Ids a caller may pass to navigateToScene: every registry key, an unknown
\* id, and a key that exists only on Object.prototype.
NavInputs == RegistryIds \cup {"nonexistent-room"} \cup ObjectPrototypeKeys

(***************************************************************************)
(* Viewer construction                                                     *)
(***************************************************************************)

\* { ...a, ...b }: later keys override earlier ones.
Spread(a, b) ==
    [k \in DOMAIN a \cup DOMAIN b |-> IF k \in DOMAIN b THEN b[k] ELSE a[k]]

\* Faulty variant of createHotspots: the click handler is handed the hotspot's
\* label instead of its target id.
createHotspotsByLabel(hotspots) ==
    [i \in DOMAIN hotspots |->
        [pitch |-> hotspots[i].pitch, yaw |-> hotspots[i].yaw, type |-> "custom",
         createTooltipArgs |-> [label |-> hotspots[i].label,
                                targetScene |-> hotspots[i].targetScene],
         clickHandlerArgs |-> [targetScene |-> hotspots[i].label]]]

createHotspots(hotspots) ==
    [i \in DOMAIN hotspots |->
        [pitch |-> hotspots[i].pitch, yaw |-> hotspots[i].yaw, type |-> "custom",
         createTooltipArgs |-> [label |-> hotspots[i].label,
                                targetScene |-> hotspots[i].targetScene],
         clickHandlerArgs |-> [targetScene |-> hotspots[i].targetScene]]]

\* Faulty variant of ViewerConfig: pitch is read from the wrong field of initialView.
ViewerConfigPitchFromYaw(scene) ==
    Spread(Spread([type |-> "equirectangular",
                   panorama |-> scene.image,
                   yaw |-> scene.initialView.yaw,
                   pitch |-> scene.initialView.yaw,
                   hfov |-> scene.initialView.hfov],
                  VIEWER_SETTINGS),
           [hotSpots |-> createHotspots(scene.hotspots)])

\* The configuration object literal handed to pannellum.viewer, key by key in
\* source order.
ViewerConfig(scene) ==
    Spread(Spread([type |-> "equirectangular",
                   panorama |-> scene.image,
                   yaw |-> scene.initialView.yaw,
                   pitch |-> scene.initialView.pitch,
                   hfov |-> scene.initialView.hfov],
                  VIEWER_SETTINGS),
           [hotSpots |-> createHotspots(scene.hotspots)])

\* A fresh instance returned by pannellum.viewer('panorama', config);
\* handlers names the function whose load / error callbacks are attached.
pannellumViewer(config, handlers) ==
    [config |-> config, destroyed |-> FALSE, fired |-> "none", repeats |-> 0,
     handlers |-> handlers]

\* Faulty variant of destroy: a stale reference releases the first instance
\* instead of the current one.
destroyFirst(vs, i) == [vs EXCEPT ![1].destroyed = TRUE]

\* Faulty variant of destroy: the old instance is never released.
destroyNothing(vs, i) == vs

destroy(vs, i) == [vs EXCEPT ![i].destroyed = TRUE]

LiveViewers == {i \in DOMAIN viewers : ~viewers[i].destroyed}

(***************************************************************************)
(* UI UPDATES                                                              *)
(***************************************************************************)

IndexOf(id) ==
    IF id \in RegistryIds THEN CHOOSE i \in DOMAIN SceneIds : SceneIds[i] = id ELSE 0

\* updateUI(): room name, counter and (updateRoomButtonStates) active button.
\* With an id outside the registry scene.title throws before any write.
updateUI ==
    /\ updateUICalls' = updateUICalls + 1
    /\ ui' = IF currentScene \in RegistryIds
             THEN [roomName |-> SCENE_CONFIG[currentScene].title,
                   roomCounter |-> IndexOf(currentScene),
                   activeButton |-> currentScene]
             ELSE ui

hideLoadingScreen == loadingHidden' = TRUE

(***************************************************************************)
(* INITIALIZATION                                                          *)
(***************************************************************************)

\* The module-level state object, before init() has run.
InitState ==
    /\ currentScene = Null
    /\ viewer = 0
    /\ isTransitioning = FALSE
    /\ viewers = << >>
    /\ transitionActive = FALSE
    /\ loadingHidden = FALSE
    /\ ui = [roomName |-> Null, roomCounter |-> 0, activeButton |-> Null]
    /\ pending = << >>
    /\ rejected = FALSE
    /\ updateUICalls = 0
    /\ hfov = 0
    /\ fullscreen = FALSE
    /\ chromeHidden = FALSE
    /\ accepted = << >>
    /\ dropped = FALSE
    /\ lastOp = [op |-> "none", arg |-> Null, result |-> Null]

Init ==
    /\ InitState
    /\ descriptor = << >>
    /\ built = << >>
    /\ walk = << >>

\* initializeViewer(): point the state at DEFAULT_SCENE and build its viewer.
initializeViewer ==
    /\ currentScene' = DEFAULT_SCENE
    /\ viewers' = Append(viewers,
                         pannellumViewer(ViewerConfig(SCENE_CONFIG[DEFAULT_SCENE]),
                                         "initializeViewer"))
    /\ viewer' = Len(viewers) + 1
    /\ hfov' = ViewerConfig(SCENE_CONFIG[DEFAULT_SCENE]).hfov

\* init(): initializeViewer, then renderRoomButtons marks the active button.
\* Runs once; only afterwards do the listeners and window.HomeTour exist.
init ==
    /\ viewer = 0
    /\ initializeViewer
    /\ ui' = [ui EXCEPT !.activeButton = DEFAULT_SCENE]
    /\ lastOp' = [op |-> "init", arg |-> DEFAULT_SCENE, result |-> Null]
    /\ UNCHANGED <<isTransitioning, transitionActive, loadingHidden, pending,
                   rejected, updateUICalls, accepted, dropped, cfgVars,
                   fullscreen, chromeHidden>>

(***************************************************************************)
(* SCENE MANAGEMENT                                                        *)
(***************************************************************************)

\* !SCENE_CONFIG[sceneId] is false for own keys and for inherited ones.
HasProperty(sceneId) == sceneId \in RegistryIds \cup ObjectPrototypeKeys

\* Faulty variant of InvalidOrRedundant: the comparison with currentScene is missing.
InvalidOnly(sceneId) == ~HasProperty(sceneId)

\* Guard 1: invalid or redundant navigation.
InvalidOrRedundant(sceneId) == ~HasProperty(sceneId) \/ sceneId = currentScene

\* Faulty variant of Busy: the re-entrancy guard is missing.
BusyNever == FALSE

\* Guard 2: a transition is in flight.
Busy == isTransitioning

\* Faulty variant of BeginTransition: the flag is not raised.
BeginTransitionNoFlag(sceneId) ==
    /\ transitionActive' = TRUE
    /\ pending' = Append(pending, sceneId)
    /\ accepted' = Append(accepted, sceneId)
    /\ UNCHANGED isTransitioning

\* The synchronous part of an accepted call, up to `await delay(...)`.
BeginTransition(sceneId) ==
    /\ isTransitioning' = TRUE
    /\ transitionActive' = TRUE
    /\ pending' = Append(pending, sceneId)
    /\ accepted' = Append(accepted, sceneId)

\* Faulty variant of DropRequest: a request that arrives during a transition is kept
\* in the backlog of suspended calls.
QueueRequest(sceneId) ==
    /\ Len(pending) < MaxViewers
    /\ pending' = Append(pending, sceneId)
    /\ UNCHANGED <<isTransitioning, transitionActive, accepted>>

\* The early return of guard 2: the request leaves no trace.
DropRequest(sceneId) ==
    UNCHANGED <<isTransitioning, transitionActive, pending, accepted>>

\* What lastOp records of a navigateToScene call: its argument, its outcome
\* and, unless it was a direct call, the event that made it.
CallRecord(sceneId, result, origin) ==
    IF origin = "call"
    THEN [op |-> "navigateToScene", arg |-> sceneId, result |-> result]
    ELSE [op |-> "navigateToScene", arg |-> sceneId, result |-> result,
          origin |-> origin]

\* navigateToScene(sceneId), from its entry to its first suspension or
\* return, called from `origin`.
navigateToSceneFrom(sceneId, origin) ==
    /\ viewer # 0
    /\ UNCHANGED <<currentScene, viewer, viewers, loadingHidden, ui, rejected,
                   updateUICalls, cfgVars, viewVars>>
    /\ IF InvalidOrRedundant(sceneId)
       THEN /\ lastOp' = CallRecord(sceneId, "ignored", origin)
            /\ UNCHANGED <<isTransitioning, transitionActive, pending, accepted,
                           dropped>>
       ELSE IF Busy
            THEN /\ lastOp' = CallRecord(sceneId, "busy", origin)
                 /\ dropped' = TRUE
                 /\ DropRequest(sceneId)
            ELSE /\ Len(accepted) + 1 < MaxViewers
                 /\ lastOp' = CallRecord(sceneId, "begun", origin)
                 /\ dropped' = FALSE
                 /\ BeginTransition(sceneId)

\* A direct call, window.HomeTour.navigateToScene(sceneId).
navigateToScene(sceneId) == navigateToSceneFrom(sceneId, "call")

\* Faulty variant of AwaitSignal: the transition is ended right after the
\* viewer is constructed, without waiting for its signal.
EndWithoutSignal ==
    /\ isTransitioning' = FALSE
    /\ transitionActive' = FALSE

\* After the callbacks are attached the call returns: fade and flag stay as
\* they are until one of the callbacks runs.
AwaitSignal == UNCHANGED <<isTransitioning, transitionActive>>

\* The continuation after the delay: destroy the old viewer, advance
\* currentScene, construct the new viewer and attach its callbacks.  For an
\* inherited key the looked-up value has no initialView, so building the
\* configuration throws after the destroy and the assignment: the promise is
\* rejected, and no viewer is constructed.
resumeAfterDelay ==
    /\ pending # << >>
    /\ LET sceneId == Head(pending)
           old == destroy(viewers, viewer)
       IN /\ pending' = Tail(pending)
          /\ currentScene' = sceneId
          /\ lastOp' = [op |-> "resume", arg |-> sceneId,
                        result |-> IF sceneId \in RegistryIds THEN "constructed"
                                                              ELSE "threw"]
          /\ IF sceneId \in RegistryIds
             THEN /\ viewers' = Append(old,
                                   pannellumViewer(ViewerConfig(SCENE_CONFIG[sceneId]),
                                                   "navigateToScene"))
                  /\ viewer' = Len(viewers) + 1
                  /\ hfov' = ViewerConfig(SCENE_CONFIG[sceneId]).hfov
                  /\ UNCHANGED rejected
             ELSE /\ viewers' = old
                  /\ rejected' = TRUE
                  /\ UNCHANGED <<viewer, hfov>>
    /\ AwaitSignal
    /\ UNCHANGED <<loadingHidden, ui, updateUICalls, accepted, dropped, cfgVars,
                   fullscreen, chromeHidden>>

(***************************************************************************)
(* Viewer callbacks                                                        *)
(***************************************************************************)

\* Faulty variant of initLoadHandler: it also clears the transition flag,
\* as the callback of navigateToScene does.
initLoadHandlerClearsFlag ==
    /\ hideLoadingScreen
    /\ updateUI
    /\ isTransitioning' = FALSE
    /\ UNCHANGED transitionActive

\* initializeViewer's 'load' callback.
initLoadHandler ==
    /\ hideLoadingScreen
    /\ updateUI
    /\ UNCHANGED <<isTransitioning, transitionActive>>

\* initializeViewer's 'error' callback: console.error only.
initErrorHandler ==
    UNCHANGED <<isTransitioning, transitionActive, loadingHidden, ui, updateUICalls>>

\* Faulty variant of navLoadHandler: the flag is not cleared on load.
navLoadHandlerKeepsFlag ==
    /\ transitionActive' = FALSE
    /\ updateUI
    /\ UNCHANGED <<isTransitioning, loadingHidden>>

\* navigateToScene's 'load' callback.
navLoadHandler ==
    /\ transitionActive' = FALSE
    /\ isTransitioning' = FALSE
    /\ updateUI
    /\ UNCHANGED loadingHidden

\* Faulty variant of navErrorHandler: the flag is not cleared on error.
navErrorHandlerKeepsFlag ==
    /\ transitionActive' = FALSE
    /\ UNCHANGED <<isTransitioning, loadingHidden, ui, updateUICalls>>

\* Faulty variant of navErrorHandler: observers are notified on the error path too.
navErrorHandlerNotifies ==
    /\ transitionActive' = FALSE
    /\ isTransitioning' = FALSE
    /\ updateUI
    /\ UNCHANGED loadingHidden

\* navigateToScene's 'error' callback.
navErrorHandler ==
    /\ transitionActive' = FALSE
    /\ isTransitioning' = FALSE
    /\ UNCHANGED <<loadingHidden, ui, updateUICalls>>

\* The viewer library's side of viewer.on: an instance built from a single
\* panorama emits 'load' or 'error' once, and none after destroy().
CanFire(i) ==
    /\ i \in DOMAIN viewers
    /\ ~viewers[i].destroyed
    /\ viewers[i].fired = "none"

\* Viewer i emits 'load'.
fireLoad(i) ==
    /\ CanFire(i)
    /\ viewers' = [viewers EXCEPT ![i].fired = "load"]
    /\ lastOp' = [op |-> "load", arg |-> viewers[i].handlers, result |-> Null]
    /\ IF viewers[i].handlers = "initializeViewer"
       THEN initLoadHandler
       ELSE navLoadHandler
    /\ UNCHANGED <<currentScene, viewer, pending, rejected, accepted, dropped,
                   cfgVars, viewVars>>

\* Viewer i emits 'error'.
fireError(i) ==
    /\ CanFire(i)
    /\ viewers' = [viewers EXCEPT ![i].fired = "error"]
    /\ lastOp' = [op |-> "error", arg |-> viewers[i].handlers, result |-> Null]
    /\ IF viewers[i].handlers = "initializeViewer"
       THEN initErrorHandler
       ELSE navErrorHandler
    /\ UNCHANGED <<currentScene, viewer, pending, rejected, accepted, dropped,
                   cfgVars, viewVars>>

(***************************************************************************)
(* Specification                                                           *)
(***************************************************************************)

Next ==
    \/ init
    \/ \E sceneId \in NavInputs : navigateToScene(sceneId)
    \/ resumeAfterDelay
    \/ \E i \in 1..MaxViewers : fireLoad(i)
    \/ \E i \in 1..MaxViewers : fireError(i)

Spec == Init /\ [][Next]_vars

(***************************************************************************)
(* The viewer configuration as a function of the scene descriptor          *)
(***************************************************************************)

PitchInputs == (0 - MaxPitchInput)..MaxPitchInput

\* The registry's descriptors with any initialView.pitch supplied.
Descriptors ==
    {[SCENE_CONFIG[s] EXCEPT !.initialView.pitch = p] :
        s \in RegistryIds, p \in PitchInputs}

ConfigInit ==
    /\ InitState
    /\ descriptor \in {<<d>> : d \in Descriptors}
    /\ built = << >>
    /\ walk = << >>

\* pannellum.viewer('panorama', { ... }) for the descriptor drawn: the
\* configuration it is handed.
constructViewer ==
    /\ built = << >>
    /\ built' = <<ViewerConfig(descriptor[1])>>
    /\ UNCHANGED <<progVars, accepted, dropped, lastOp, descriptor, walk>>

ConfigNext == constructViewer

ConfigSpec == ConfigInit /\ [][ConfigNext]_vars

\* Timers fire: a call suspended in delay() is eventually resumed.  Nothing
\* obliges the viewer library to signal.
FairSpec == Spec /\ WF_vars(init) /\ WF_vars(resumeAfterDelay)

(***************************************************************************)
(* User input: hotspots, room buttons, keyboard                            *)
(***************************************************************************)

\* clickHandlerFunc of hotspot k of the viewer on screen:
\* navigateToScene(args.targetScene).
clickHotspot(k) ==
    /\ viewer \in LiveViewers
    /\ k \in DOMAIN viewers[viewer].config.hotSpots
    /\ navigateToSceneFrom(
           viewers[viewer].config.hotSpots[k].clickHandlerArgs.targetScene,
           "hotspot")

\* Click on the room button renderRoomButtons made for scene.id.
clickRoomButton(sceneId) ==
    /\ sceneId \in RegistryIds
    /\ navigateToSceneFrom(sceneId, "button")

\* Object.keys(SCENE_CONFIG)[idx]; undefined outside the array.
SceneAt(idx) ==
    IF idx \in 0..(Len(SceneIds) - 1) THEN SceneIds[idx + 1] ELSE "undefined"

\* sceneIds.indexOf(state.currentScene): zero-based, -1 when absent.
currentIndex == IndexOf(currentScene) - 1

\* Faulty variant of prevIndex: the decrement is taken without adding the length.
prevIndexNoWrap == IF currentIndex - 1 < 0 THEN 0 - 1 ELSE currentIndex - 1

nextIndex == (currentIndex + 1) % Len(SceneIds)

prevIndex == (currentIndex - 1 + Len(SceneIds)) % Len(SceneIds)

NextKeys == {"ArrowRight", "n"}
PrevKeys == {"ArrowLeft", "p"}
DigitKeys == {"1", "2", "3", "4"}

\* parseInt(event.key) for the digit keys of the switch.
parseInt(key) ==
    CASE key = "1" -> 1 [] key = "2" -> 2 [] key = "3" -> 3 [] key = "4" -> 4

\* Keys the switch has no case for; one representative.
OtherKeys == {"Escape"}

\* The keys that reach navigateToScene or nothing ('f' is in ViewSpec).
NavKeys == NextKeys \cup PrevKeys \cup DigitKeys \cup OtherKeys

\* toggleFullscreen(): the browser grants the request or the exit.
toggleFullscreen ==
    /\ viewer # 0
    /\ fullscreen' = ~fullscreen
    /\ lastOp' = [op |-> "toggleFullscreen", arg |-> Null, result |-> Null]
    /\ UNCHANGED <<currentScene, viewer, isTransitioning, viewers,
                   transitionActive, loadingHidden, ui, pending, rejected,
                   updateUICalls, hfov, chromeHidden, accepted, dropped, cfgVars>>

\* handleKeyboardNavigation(event) for event.key = key.
handleKeyboardNavigation(key) ==
    /\ viewer # 0
    /\ IF key \in NextKeys
       THEN navigateToSceneFrom(SceneAt(nextIndex), key)
       ELSE IF key \in PrevKeys
       THEN navigateToSceneFrom(SceneAt(prevIndex), key)
       ELSE IF key = "f"
       THEN toggleFullscreen
       ELSE IF key \in DigitKeys /\ SceneAt(parseInt(key) - 1) # "undefined"
       THEN navigateToSceneFrom(SceneAt(parseInt(key) - 1), key)
       ELSE /\ lastOp' = [op |-> "keydown", arg |-> key, result |-> Null]
            /\ UNCHANGED <<progVars, accepted, dropped, cfgVars>>

InputNext ==
    \/ Next
    \/ \E k \in 1..MaxHotspots : clickHotspot(k)
    \/ \E sceneId \in RegistryIds : clickRoomButton(sceneId)
    \/ \E key \in NavKeys : handleKeyboardNavigation(key)

InputSpec == Init /\ [][InputNext]_vars

(***************************************************************************)
(* Zoom, resize, fullscreen and the read accessors                         *)
(***************************************************************************)

Max(a, b) == IF a >= b THEN a ELSE b
Min(a, b) == IF a <= b THEN a ELSE b
Abs(a) == IF a < 0 THEN 0 - a ELSE a

\* state.viewer.setHfov(h), observed through getHfov().
setHfov(h) == hfov' = h

\* What the program leaves alone when it only adjusts the view.
viewFrame ==
    UNCHANGED <<currentScene, viewer, isTransitioning, viewers, transitionActive,
                loadingHidden, ui, pending, rejected, updateUICalls, accepted,
                dropped, cfgVars>>

\* Click on the zoom-in button.
zoomIn ==
    /\ viewer \in LiveViewers
    /\ setHfov(Max(hfov - 10, VIEWER_SETTINGS.minHfov))
    /\ lastOp' = [op |-> "zoomIn", arg |-> Null, result |-> Null]
    /\ UNCHANGED <<fullscreen, chromeHidden>>
    /\ viewFrame

\* Faulty variant of zoomOutTarget: the upper limit is not applied.
zoomOutUncapped == hfov + 10

zoomOutTarget == Min(hfov + 10, VIEWER_SETTINGS.maxHfov)

\* Click on the zoom-out button.
zoomOut ==
    /\ viewer \in LiveViewers
    /\ setHfov(zoomOutTarget)
    /\ lastOp' = [op |-> "zoomOut", arg |-> Null, result |-> Null]
    /\ UNCHANGED <<fullscreen, chromeHidden>>
    /\ viewFrame

\* The width threshold of handleResize, as the two cases of isMobile.
targetHfov(isMobile) ==
    IF isMobile
    THEN Min(SCENE_CONFIG[currentScene].initialView.hfov, 100)
    ELSE SCENE_CONFIG[currentScene].initialView.hfov

\* Faulty variant of resizeFrame: the handler also resets the current scene.
resizeResetsScene ==
    /\ currentScene' = DEFAULT_SCENE
    /\ UNCHANGED <<viewer, isTransitioning, viewers, transitionActive,
                   loadingHidden, ui, pending, rejected, updateUICalls, accepted,
                   dropped, cfgVars>>

resizeFrame == viewFrame

\* handleResize(), run by the debounce timer, with window.innerWidth < 768
\* being isMobile.  With a current scene outside the registry
\* scene.initialView.hfov throws before any write.
handleResize(isMobile) ==
    /\ viewer # 0
    /\ currentScene # Null
    /\ lastOp' = [op |-> "handleResize",
                  arg |-> IF isMobile THEN "mobile" ELSE "desktop",
                  result |-> Null]
    /\ IF currentScene \in RegistryIds /\ Abs(hfov - targetHfov(isMobile)) > 15
       THEN setHfov(targetHfov(isMobile))
       ELSE UNCHANGED hfov
    /\ UNCHANGED <<fullscreen, chromeHidden>>
    /\ resizeFrame

\* handleFullscreenChange(): header and room navigation follow the
\* fullscreen state.
handleFullscreenChange ==
    /\ viewer # 0
    /\ chromeHidden' = fullscreen
    /\ lastOp' = [op |-> "handleFullscreenChange", arg |-> Null,
                  result |-> Null]
    /\ UNCHANGED <<hfov, fullscreen>>
    /\ viewFrame

\* window.HomeTour.getCurrentScene()
getCurrentScene ==
    /\ lastOp' = [op |-> "getCurrentScene", arg |-> Null, result |-> currentScene]
    /\ UNCHANGED <<progVars, accepted, dropped, cfgVars>>

\* window.HomeTour.getScenes(): returns the ids of SceneIds; the value is not
\* recorded.
getScenes ==
    /\ lastOp' = [op |-> "getScenes", arg |-> Null, result |-> Null]
    /\ UNCHANGED <<progVars, accepted, dropped, cfgVars>>

\* Navigation by room buttons, interleaved with zoom, resize, fullscreen and
\* accessor calls.
ViewNext ==
    \/ init
    \/ \E sceneId \in RegistryIds :
          Len(accepted) < MaxViewSwaps /\ clickRoomButton(sceneId)
    \/ resumeAfterDelay
    \/ \E i \in 1..MaxViewers : fireLoad(i)
    \/ \E i \in 1..MaxViewers : fireError(i)
    \/ zoomIn
    \/ zoomOut
    \/ \E isMobile \in BOOLEAN : handleResize(isMobile)
    \/ handleKeyboardNavigation("f")
    \/ handleFullscreenChange
    \/ getCurrentScene
    \/ getScenes

ViewSpec == Init /\ [][ViewNext]_vars

(***************************************************************************)
(* A viewer that signals more than once                                    *)
(***************************************************************************)

\* viewer.on registers the callbacks for every emission: a live instance
\* that has signalled may signal again.
CanFireAgain(i) ==
    /\ i \in DOMAIN viewers
    /\ ~viewers[i].destroyed
    /\ viewers[i].fired # "none"
    /\ viewers[i].repeats < MaxRepeats

\* Viewer i emits 'load' once more.
refireLoad(i) ==
    /\ CanFireAgain(i)
    /\ viewers' = [viewers EXCEPT ![i].fired = "load", ![i].repeats = @ + 1]
    /\ lastOp' = [op |-> "load", arg |-> viewers[i].handlers, result |-> Null]
    /\ IF viewers[i].handlers = "initializeViewer"
       THEN initLoadHandler
       ELSE navLoadHandler
    /\ UNCHANGED <<currentScene, viewer, pending, rejected, accepted, dropped,
                   cfgVars, viewVars>>

\* Viewer i emits 'error' after an earlier signal.
refireError(i) ==
    /\ CanFireAgain(i)
    /\ viewers' = [viewers EXCEPT ![i].fired = "error", ![i].repeats = @ + 1]
    /\ lastOp' = [op |-> "error", arg |-> viewers[i].handlers, result |-> Null]
    /\ IF viewers[i].handlers = "initializeViewer"
       THEN initErrorHandler
       ELSE navErrorHandler
    /\ UNCHANGED <<currentScene, viewer, pending, rejected, accepted, dropped,
                   cfgVars, viewVars>>

MultiNext ==
    \/ Next
    \/ \E i \in 1..MaxViewers : refireLoad(i)
    \/ \E i \in 1..MaxViewers : refireError(i)

MultiSpec == Init /\ [][MultiNext]_vars

(***************************************************************************)
(* Walks along hotspots                                                    *)
(***************************************************************************)

\* Faulty variant of hotspotTarget: every click handler is handed the arguments
\* of the scene's first hotspot.
hotspotTargetOfFirst(sceneId, k) ==
    ViewerConfig(SCENE_CONFIG[sceneId]).hotSpots[1].clickHandlerArgs.targetScene

\* The id that hotspot k of the viewer built for sceneId passes to
\* navigateToScene when clicked.
hotspotTarget(sceneId, k) ==
    ViewerConfig(SCENE_CONFIG[sceneId]).hotSpots[k].clickHandlerArgs.targetScene

\* The hotspots of the viewer built for sceneId.
HotspotsOf(sceneId) == DOMAIN ViewerConfig(SCENE_CONFIG[sceneId]).hotSpots

\* A walk starts in any scene of the registry.
WalkInit ==
    /\ InitState
    /\ descriptor = << >>
    /\ built = << >>
    /\ walk \in {<<s>> : s \in RegistryIds}

\* Hotspot k of the scene the walk stands in is clicked and the navigation
\* settles in its target.
followHotspot(k) ==
    /\ Len(walk) <= MaxHops
    /\ k \in HotspotsOf(walk[Len(walk)])
    /\ walk' = Append(walk, hotspotTarget(walk[Len(walk)], k))
    /\ UNCHANGED <<progVars, accepted, dropped, lastOp, descriptor, built>>

WalkNext == \E k \in 1..MaxHotspots : followHotspot(k)

WalkSpec == WalkInit /\ [][WalkNext]_vars

(***************************************************************************)
(* Properties                                                              *)
(***************************************************************************)

Last(seq) == seq[Len(seq)]

\* The step is a call of navigateToScene (of any outcome).
NavCall == lastOp'.op = "navigateToScene"

\* The step is a signal `ev` of a viewer constructed by navigateToScene.
NavViewerFires(ev) ==
    \E i \in DOMAIN viewers :
        /\ viewers[i].handlers = "navigateToScene"
        /\ viewers[i].fired = "none"
        /\ viewers'[i].fired = ev

\* No transition is in flight.
Idle == viewer # 0 /\ ~isTransitioning /\ pending = << >>

\* C1: a navigateToScene call made while isTransitioning is true is a no-op,
\* whatever its argument: the state object, the viewer instances, the fade
\* and the suspended calls are unchanged and no further request is accepted.
C1_ReentrantCallIsNoOp ==
    [][(NavCall /\ isTransitioning) => UNCHANGED <<progVars, accepted>>]_vars

\* navigateToScene('lounge') was called a second time before the first
\* call's transition left the exit delay.
C1_Witness ==
    /\ lastOp = [op |-> "navigateToScene", arg |-> "lounge", result |-> "busy"]
    /\ accepted = <<"lounge">>
    /\ pending = <<"lounge">>
    /\ currentScene = "living-room"

\* C2: at most one viewer instance is live in every state, and whenever no
\* transition is in flight the live instance is exactly state.viewer.
C2_AtMostOneLiveViewer ==
    /\ Cardinality(LiveViewers) <= 1
    /\ Idle => LiveViewers = {viewer}

\* Two scene swaps have completed and only the third instance is live.
C2_Witness ==
    /\ Len(viewers) = 3
    /\ Idle
    /\ viewers[1].destroyed /\ viewers[2].destroyed
    /\ LiveViewers = {3}

\* C3: an accepted call begins a transition; the suspended call for a
\* registry scene t is eventually resumed, which leaves currentScene = t with
\* the viewer of t loading; and the load signal of that viewer ends the
\* transition with currentScene = the accepted target and exactly one live
\* viewer, bound to that scene's image.
C3_AcceptedNavigationCompletes ==
    /\ [][(NavCall /\ ~InvalidOrRedundant(lastOp'.arg) /\ ~isTransitioning)
            => (isTransitioning' /\ transitionActive'
                /\ pending' = <<lastOp'.arg>> /\ currentScene' = currentScene)]_vars
    /\ [][NavViewerFires("load")
            => (/\ ~isTransitioning' /\ ~transitionActive'
                /\ pending' = << >>
                /\ currentScene' = Last(accepted)
                /\ LiveViewers' = {viewer'}
                /\ viewers'[viewer'].config.panorama
                     = SCENE_CONFIG[currentScene'].image)]_vars
    /\ \A t \in RegistryIds :
          (pending # << >> /\ Head(pending) = t)
             ~> (currentScene = t /\ isTransitioning /\ CanFire(viewer))

\* From living-room, navigateToScene('lounge') was accepted and its viewer
\* has signalled load.
C3_Witness ==
    /\ accepted = <<"lounge">>
    /\ lastOp.op = "load" /\ lastOp.arg = "navigateToScene"
    /\ currentScene = "lounge"
    /\ ~isTransitioning
    /\ viewers[1].destroyed
    /\ LiveViewers = {2}

\* C4: a navigateToScene call whose argument is a registry id equal to
\* currentScene changes nothing, in flight or not.
C4_SameSceneIsNoOp ==
    [][(NavCall /\ lastOp'.arg \in RegistryIds /\ lastOp'.arg = currentScene)
        => UNCHANGED <<progVars, accepted>>]_vars

\* Idle at lounge after a completed transition, navigateToScene('lounge')
\* was called.
C4_Witness ==
    /\ lastOp = [op |-> "navigateToScene", arg |-> "lounge", result |-> "ignored"]
    /\ currentScene = "lounge"
    /\ Idle

\* C5: a navigateToScene call whose argument is not a key of the registry
\* changes nothing, and no navigateToScene promise is ever rejected.
C5_UnknownIdIsNoOp ==
    /\ [][(NavCall /\ lastOp'.arg \notin RegistryIds)
            => UNCHANGED <<progVars, accepted>>]_vars
    /\ [](~rejected)

\* C6: the error signal of a viewer constructed by navigateToScene clears
\* the fade and the flag and leaves currentScene at the accepted target, with
\* no UI update; a valid navigateToScene call made right after it is accepted.
C6_ErrorAbortsTransition ==
    /\ [][NavViewerFires("error")
            => (/\ ~transitionActive' /\ ~isTransitioning'
                /\ currentScene' = currentScene
                /\ currentScene' = Last(accepted)
                /\ UNCHANGED <<viewer, pending, ui, updateUICalls>>)]_vars
    /\ [][(/\ lastOp.op = "error" /\ lastOp.arg = "navigateToScene"
            /\ NavCall /\ ~InvalidOrRedundant(lastOp'.arg))
            => (isTransitioning' /\ pending' = <<lastOp'.arg>>)]_vars

\* The viewer of the first accepted request signalled error, currentScene
\* stayed at that request's target, and a second request has been accepted.
C6_Witness ==
    /\ Len(accepted) = 2
    /\ viewers[2].fired = "error"
    /\ currentScene = accepted[1]
    /\ lastOp.op = "navigateToScene" /\ lastOp.result = "begun"
    /\ pending = <<accepted[2]>>

\* C7: a request is accepted only when no call is suspended in the exit
\* delay and every earlier accepted request has had its viewer constructed
\* and that viewer has signalled load or error.
C7_TransitionRunsToCompletion ==
    [][accepted' # accepted
        => (/\ pending = << >>
            /\ Len(viewers) = Len(accepted) + 1
            /\ accepted # << >> => viewers[Len(viewers)].fired \in {"load", "error"})]_vars

\* A second request was accepted after the first one's viewer loaded.
C7_Witness ==
    /\ Len(accepted) = 2
    /\ Len(viewers) = 2
    /\ viewers[2].fired = "load"
    /\ pending = <<accepted[2]>>
    /\ isTransitioning

\* C8: a call made during a transition adds nothing to the suspended calls;
\* when the viewer of the transition signals, currentScene is the accepted
\* target, nothing is left suspended and the flag is down; and the flag is
\* raised only by a navigateToScene call, for that call's own argument.
C8_DroppedNotQueued ==
    /\ [][(NavCall /\ isTransitioning) => UNCHANGED <<pending, accepted>>]_vars
    /\ [][(NavViewerFires("load") \/ NavViewerFires("error"))
            => (/\ currentScene' = Last(accepted)
                /\ pending' = << >>
                /\ ~isTransitioning')]_vars
    /\ [][(~isTransitioning /\ isTransitioning')
            => (NavCall /\ accepted' = Append(accepted, lastOp'.arg))]_vars

\* A request was dropped during the transition to lounge, and the transition
\* has settled at lounge.
C8_Witness ==
    /\ dropped
    /\ accepted = <<"lounge">>
    /\ lastOp.op = "load" /\ lastOp.arg = "navigateToScene"
    /\ Idle
    /\ currentScene = "lounge"

\* The viewers whose callbacks were attached by h and that signalled load.
Loaded(h) ==
    {i \in DOMAIN viewers : viewers[i].handlers = h /\ viewers[i].fired = "load"}

\* C9: updateUI has run once for every viewer of navigateToScene that
\* signalled load (and once for the initial viewer's load), and never
\* otherwise: not on error, not for dropped or ignored calls.
C9_OneNotificationPerSuccessfulTransition ==
    updateUICalls - Cardinality(Loaded("initializeViewer"))
        = Cardinality(Loaded("navigateToScene"))

\* One transition failed, the next one succeeded, a call was dropped.
C9_Witness ==
    /\ Len(viewers) = 3
    /\ viewers[1].fired = "load"
    /\ viewers[2].fired = "error"
    /\ viewers[3].fired = "load"
    /\ dropped
    /\ updateUICalls = 2

\* C10 as stated: the pitch in every configuration handed to
\* pannellum.viewer lies in [-50, 50], whatever initialView.pitch is.
C10_PitchPassedWithinClamp ==
    built # << >> => built[1].pitch \in (0 - 50)..50

\* C10 amended: the pitch handed over is the descriptor's initialView.pitch
\* as supplied; the limits minPitch = -50 and maxPitch = 50 are handed over
\* beside it; and for the descriptors of the registry itself the pitch lies
\* within those limits.
C10_PitchPassedAsSupplied ==
    built # << >> =>
        /\ built[1].pitch = descriptor[1].initialView.pitch
        /\ built[1].minPitch = 0 - 50
        /\ built[1].maxPitch = 50
        /\ (\E s \in RegistryIds : descriptor[1] = SCENE_CONFIG[s])
              => built[1].pitch \in built[1].minPitch..built[1].maxPitch

\* A descriptor with pitch 60 was handed over with pitch 60.
C10_Witness ==
    /\ built # << >>
    /\ descriptor[1].initialView.pitch = 60
    /\ built[1].pitch = 60
    /\ built[1].maxPitch = 50

\* C11 as stated: every constructed viewer is bound to one registry scene,
\* state.viewer to the scene currentScene names, and the yaw, pitch and hfov
\* of its configuration are that scene's initialView.yaw, .pitch and .hfov,
\* with the pitch and hfov limits of VIEWER_SETTINGS beside them.
C11_ViewerBoundToInitialView ==
    /\ \A i \in DOMAIN viewers :
          \E s \in RegistryIds :
              /\ viewers[i].config.panorama = SCENE_CONFIG[s].image
              /\ viewers[i].config.yaw = SCENE_CONFIG[s].initialView.yaw
              /\ viewers[i].config.pitch = SCENE_CONFIG[s].initialView.pitch
              /\ viewers[i].config.hfov = SCENE_CONFIG[s].initialView.hfov
              /\ viewers[i].config.minPitch = VIEWER_SETTINGS.minPitch
              /\ viewers[i].config.maxPitch = VIEWER_SETTINGS.maxPitch
              /\ viewers[i].config.minHfov = VIEWER_SETTINGS.minHfov
              /\ viewers[i].config.maxHfov = VIEWER_SETTINGS.maxHfov
    /\ (viewer # 0 /\ currentScene \in RegistryIds)
          => viewers[viewer].config.panorama = SCENE_CONFIG[currentScene].image

\* C12: once navigateToScene('lounge') and then a navigation back to the
\* default scene have both settled, currentScene is 'living-room' again and
\* the third instance is the only live one; in every idle state each
\* instance other than state.viewer has been destroyed, however many
\* transitions ran.
C12_RoundTripReleasesViewers ==
    /\ (Idle /\ Len(accepted) = 2 /\ accepted[2] = DEFAULT_SCENE)
          => (currentScene = DEFAULT_SCENE /\ LiveViewers = {3})
    /\ Idle => (/\ Len(viewers) = Len(accepted) + 1
                /\ \A i \in DOMAIN viewers : i # viewer => viewers[i].destroyed)

\* living-room -> lounge -> living-room, both transitions loaded.
C12_Witness ==
    /\ accepted = <<"lounge", "living-room">>
    /\ Idle
    /\ viewers[2].fired = "load" /\ viewers[3].fired = "load"
    /\ currentScene = "living-room"
    /\ ui.roomName = "Living Room"

\* An accepted request whose viewer has not signalled load or error: not
\* yet constructed, or constructed and silent so far.
InFlight ==
    /\ accepted # << >>
    /\ \/ Len(viewers) <= Len(accepted)
       \/ viewers[Len(accepted) + 1].fired = "none"

\* C14: isTransitioning is true exactly while an accepted request's viewer
\* has not yet signalled load or error, and false otherwise: before init,
\* while the initial viewer loads, and once the transition has settled.
C14_FlagMarksTransition == isTransitioning <=> InFlight

\* The initial viewer signals load during the exit delay of the first
\* transition, and the flag is still up.
C14_Witness ==
    /\ lastOp.op = "load" /\ lastOp.arg = "initializeViewer"
    /\ pending # << >>
    /\ isTransitioning

\* C16: currentScene is null exactly before init has built the first
\* viewer; right after init it is DEFAULT_SCENE with isTransitioning false;
\* and from then on it is always the id of a registry entry.
C16_CurrentSceneInRegistry ==
    /\ viewer = 0 <=> currentScene = Null
    /\ lastOp.op = "init" => (currentScene = DEFAULT_SCENE /\ ~isTransitioning)
    /\ viewer # 0 => currentScene \in RegistryIds

\* The click handler arguments of the hotspots built for scene s.
HotspotTargets(s) ==
    LET hs == createHotspots(SCENE_CONFIG[s].hotspots)
    IN  [k \in DOMAIN hs |-> hs[k].clickHandlerArgs.targetScene]

\* The step recorded in lastOp is a navigateToScene call made from `origins`.
CalledFrom(origins) ==
    /\ lastOp.op = "navigateToScene"
    /\ "origin" \in DOMAIN lastOp
    /\ lastOp.origin \in origins

\* C13: the scene graph is closed.  The hotspots built for any registry scene,
\* and those of every viewer constructed, target registry ids; a navigation
\* requested by a hotspot click is therefore never ignored (its id is known
\* and differs from the scene on screen); Living Room's hotspots lead to
\* open-living-kitchen and lounge, Music Room's only hotspot to lounge.
C13_HotspotGraphClosed ==
    /\ \A s \in RegistryIds :
          \A k \in DOMAIN HotspotTargets(s) : HotspotTargets(s)[k] \in RegistryIds
    /\ HotspotTargets("living-room") = <<"open-living-kitchen", "lounge">>
    /\ HotspotTargets("music-room") = <<"lounge">>
    /\ \A i \in DOMAIN viewers :
          \A k \in DOMAIN viewers[i].config.hotSpots :
             viewers[i].config.hotSpots[k].clickHandlerArgs.targetScene
                \in RegistryIds
    /\ CalledFrom({"hotspot"}) =>
          /\ lastOp.arg \in RegistryIds
          /\ lastOp.result # "ignored"

\* Music Room's hotspot was clicked once its panorama had loaded, and the
\* navigation to lounge began.
C13_Witness ==
    /\ CalledFrom({"hotspot"})
    /\ currentScene = "music-room"
    /\ viewers[viewer].fired = "load"
    /\ lastOp.arg = "lounge"
    /\ lastOp.result = "begun"

\* Every way the UI has of requesting a navigation.
UiOrigins == {"hotspot", "button"} \cup NavKeys

\* C15: nothing but a signal of a viewer constructed by navigateToScene ends
\* a transition.  The flag falls only in a step where such a viewer emits
\* 'load' or 'error' (no timer or other step clears it, so without a signal it
\* stays true); while it is true every navigateToScene call, whether made by
\* a hotspot, a room button, the keyboard or directly, changes nothing; and
\* when such a viewer does signal, the flag is false after the step.
C15_OnlySignalEndsTransition ==
    [][/\ (isTransitioning /\ ~isTransitioning') =>
              (NavViewerFires("load") \/ NavViewerFires("error"))
       /\ (isTransitioning /\ NavCall) =>
              (lastOp'.result # "begun" /\ UNCHANGED <<progVars, accepted>>)
       /\ (NavViewerFires("load") \/ NavViewerFires("error")) =>
              ~isTransitioning']_vars

\* The new viewer has been constructed and is silent; a keyboard request for
\* another existing scene was just dropped.
C15_Witness ==
    /\ CalledFrom(NextKeys \cup PrevKeys)
    /\ lastOp.result = "busy"
    /\ lastOp.arg \in RegistryIds \ {currentScene}
    /\ isTransitioning
    /\ pending = << >>
    /\ accepted # << >>
    /\ viewers[viewer].handlers = "navigateToScene"
    /\ viewers[viewer].fired = "none"

\* The step is a navigateToScene call made by the keydown handler for one of
\* `keys`.
KeyCall(keys) ==
    /\ lastOp'.op = "navigateToScene"
    /\ "origin" \in DOMAIN lastOp'
    /\ lastOp'.origin \in keys

\* Positions in declaration order, counted from 1: the one after and the one
\* before position i, wrapping at both ends.
After(i) == IF i = Len(SceneIds) THEN 1 ELSE i + 1
Before(i) == IF i = 1 THEN Len(SceneIds) ELSE i - 1

\* What the guards of navigateToScene make of a request for id in the
\* current state.
GuardOutcome(id) ==
    IF id = currentScene THEN "ignored"
    ELSE IF isTransitioning THEN "busy" ELSE "begun"

\* What a keydown step must satisfy when the current scene is a registry
\* scene.
KeyStep ==
    currentScene \in RegistryIds =>
        /\ KeyCall(NextKeys) =>
              lastOp'.arg = SceneIds[After(IndexOf(currentScene))]
        /\ KeyCall(PrevKeys) =>
              lastOp'.arg = SceneIds[Before(IndexOf(currentScene))]
        /\ KeyCall({"1"}) => lastOp'.arg = SceneIds[1]
        /\ KeyCall({"2"}) => lastOp'.arg = SceneIds[2]
        /\ KeyCall({"3"}) => lastOp'.arg = SceneIds[3]
        /\ KeyCall({"4"}) => lastOp'.arg = SceneIds[4]
        /\ lastOp'.op = "keydown" => lastOp'.arg \in OtherKeys
        /\ KeyCall(NavKeys) => lastOp'.result = GuardOutcome(lastOp'.arg)
        /\ \A i \in DOMAIN SceneIds : Before(After(i)) = i

\* C17: with the current scene at position i of the declaration order, the
\* next keys request the scene after it and the previous keys the scene
\* before it, wrapping at both ends; digit key k requests the k-th scene;
\* the request meets the guards of any navigateToScene call; and previous
\* undoes next at every position.
C17_KeysFollowDeclarationOrder == [][KeyStep]_vars

\* From the first scene the previous key wrapped to the last one, Music Room,
\* which loaded; the next key then requested the first scene again and the
\* navigation began.
C17_Witness ==
    /\ CalledFrom(NextKeys)
    /\ lastOp.result = "begun"
    /\ lastOp.arg = DEFAULT_SCENE
    /\ accepted = <<"music-room", DEFAULT_SCENE>>
    /\ currentScene = "music-room"
    /\ viewers[viewer].fired = "load"

\* The operations that adjust the view or only read.
ViewOps ==
    {"zoomIn", "zoomOut", "handleResize", "toggleFullscreen",
     "handleFullscreenChange", "getCurrentScene", "getScenes"}

\* The step is the 'load' signal of the viewer built by initializeViewer,
\* whose handler refreshes the UI (hideLoadingScreen, updateUI).
InitViewerLoads ==
    \E i \in DOMAIN viewers :
        /\ viewers[i].handlers = "initializeViewer"
        /\ viewers[i].fired = "none"
        /\ viewers'[i].fired = "load"

\* A step that writes neither currentScene nor isTransitioning.
KeepsNavigationState == UNCHANGED <<currentScene, isTransitioning>>

\* C18: zoom in and out, resize handling, fullscreen toggling and its change
\* event, the read accessors and the UI refresh on the first viewer's load
\* leave currentScene and isTransitioning as they are; once init has run, a
\* step that changes either of them is a navigateToScene call, its
\* continuation, or a signal of a viewer that navigateToScene constructed.
C18_OnlyNavigationWritesState ==
    [][/\ lastOp'.op \in ViewOps => KeepsNavigationState
       /\ InitViewerLoads => (KeepsNavigationState /\ updateUICalls' = updateUICalls + 1)
       /\ (viewer # 0 /\ ~KeepsNavigationState) =>
             \/ lastOp'.op \in {"navigateToScene", "resume"}
             \/ NavViewerFires("load")
             \/ NavViewerFires("error")]_vars

\* A navigation to lounge is in its exit delay and the window was just
\* resized to a narrow width after zooming and entering fullscreen.
C18_Witness ==
    /\ lastOp.op = "handleResize"
    /\ lastOp.arg = "mobile"
    /\ pending = <<"lounge">>
    /\ isTransitioning
    /\ currentScene = DEFAULT_SCENE
    /\ fullscreen
    /\ hfov = 100

\* The horizontal field of view of the viewer on screen lies within the
\* configured limits, and so does every scene's own initial value.
HfovInRange ==
    /\ viewer # 0 => hfov \in 50..120
    /\ VIEWER_SETTINGS.minHfov = 50
    /\ VIEWER_SETTINGS.maxHfov = 120
    /\ \A s \in RegistryIds : SCENE_CONFIG[s].initialView.hfov \in 100..110

\* What zoom and resize steps do to the field of view.
HfovStep ==
    /\ lastOp'.op = "zoomIn" =>
          hfov' = (IF hfov - 10 < 50 THEN 50 ELSE hfov - 10)
    /\ lastOp'.op = "zoomOut" =>
          hfov' = (IF hfov + 10 > 120 THEN 120 ELSE hfov + 10)
    /\ (lastOp'.op = "handleResize" /\ hfov' # hfov) =>
          /\ currentScene \in RegistryIds
          /\ hfov' \in {SCENE_CONFIG[currentScene].initialView.hfov, 100}
          /\ hfov' \in 100..110

\* C19: whatever the sequence of zoom-in (10 less, not below 50), zoom-out
\* (10 more, not above 120) and resize adjustments, in any scene, the
\* horizontal field of view stays within 50..120; every scene's initial
\* field of view lies in 100..110.
C19_HfovStaysInRange == [](HfovInRange) /\ [][HfovStep]_vars

\* In the lounge, zooming out reached the upper limit.
C19_Witness ==
    /\ lastOp.op = "zoomOut"
    /\ hfov = 120
    /\ currentScene = "lounge"
    /\ viewer \in LiveViewers

\* C20: while an accepted request waits out the exit delay (the new viewer is
\* not yet constructed) no step clears isTransitioning, whichever viewer
\* signals and however often; hence no second request is accepted before the
\* first has constructed its viewer.
C20_StaleSignalCannotEndTransition ==
    [][(pending # << >> /\ isTransitioning) => isTransitioning']_vars

\* The room name, counter and active button last written by updateUI are
\* those of scene s.
UIShows(s) ==
    /\ s \in RegistryIds
    /\ ui.roomName = SCENE_CONFIG[s].title
    /\ ui.roomCounter = IndexOf(s)
    /\ ui.activeButton = s

\* C21: whenever no transition is in flight and at least one transition has
\* ended, by the new viewer's 'load' or by its 'error', the room name, counter
\* and active button on screen are those of currentScene.
C21_UIShowsCurrentScene ==
    (viewer # 0 /\ ~isTransitioning /\ accepted # << >>) => UIShows(currentScene)

\* Every live instance is state.viewer and was constructed from the
\* descriptor of currentScene.
LiveViewerIsCurrentScene ==
    \A i \in LiveViewers :
        /\ i = viewer
        /\ currentScene \in RegistryIds
        /\ viewers[i].config.panorama = SCENE_CONFIG[currentScene].image
        /\ viewers[i].config.hotSpots =
              createHotspots(SCENE_CONFIG[currentScene].hotspots)

\* Once init has run, a step that changes currentScene also destroys the old
\* viewer and constructs the viewer of the new scene; while a request waits
\* out the exit delay no other step changes currentScene.
SceneChangesWithViewer ==
    (viewer # 0 /\ currentScene' # currentScene) =>
        /\ lastOp'.op = "resume"
        /\ viewers'[viewer].destroyed
        /\ Len(viewers') = Len(viewers) + 1
        /\ viewer' = Len(viewers')
        /\ viewer' \in {i \in DOMAIN viewers' : ~viewers'[i].destroyed}
        /\ currentScene' \in RegistryIds
        /\ viewers'[viewer'].config.panorama = SCENE_CONFIG[currentScene'].image

\* C22: a live viewer is always the one constructed for currentScene;
\* currentScene keeps the previous scene during the exit delay and changes
\* in the very step that destroys the old viewer and constructs the new one.
C22_ViewerMatchesCurrentScene ==
    [](LiveViewerIsCurrentScene) /\ [][SceneChangesWithViewer]_vars

\* C23: once the panorama of any viewer has loaded, the loading screen is
\* hidden, also when the first viewer was replaced before it could signal.
C23_LoadHidesLoadingScreen ==
    (\E i \in DOMAIN viewers : viewers[i].fired = "load") => loadingHidden

\* The hotspot edges leaving scene s.
Edges(s) == {hotspotTarget(s, k) : k \in HotspotsOf(s)}

\* The scenes reachable from those of `from` along at most n hotspot edges.
RECURSIVE ReachWithin(_, _)
ReachWithin(from, n) ==
    IF n = 0 THEN from
    ELSE ReachWithin(from \cup UNION {Edges(s) : s \in from}, n - 1)

Reach(s) == ReachWithin({s}, Cardinality(RegistryIds))

\* C24: the hotspot graph has exactly the edges living-room ->
\* {open-living-kitchen, lounge}, open-living-kitchen -> {living-room},
\* lounge -> {living-room, music-room}, music-room -> {lounge}; every scene is
\* reachable from the default scene and the default scene from every scene;
\* and every hop of a walk made by clicking hotspots follows one of these
\* edges and stays in the registry.
C24_HotspotGraphStronglyConnected ==
    /\ Edges("living-room") = {"open-living-kitchen", "lounge"}
    /\ Edges("open-living-kitchen") = {"living-room"}
    /\ Edges("lounge") = {"living-room", "music-room"}
    /\ Edges("music-room") = {"lounge"}
    /\ Reach(DEFAULT_SCENE) = RegistryIds
    /\ \A s \in RegistryIds : DEFAULT_SCENE \in Reach(s)
    /\ \A i \in DOMAIN walk :
          /\ walk[i] \in RegistryIds
          /\ i > 1 => walk[i] \in Edges(walk[i - 1])

\* A walk from the default scene that has visited every scene and is back at
\* the default scene.
C24_Witness ==
    /\ walk # << >>
    /\ walk[1] = DEFAULT_SCENE
    /\ {walk[i] : i \in DOMAIN walk} = RegistryIds
    /\ walk[Len(walk)] = DEFAULT_SCENE
    /\ Len(walk) > 1

====
